---- MODULE Spec2Model ----
(***************************************************************************)
(* PrettyTextWriter (src/src/IonPrettyTextWriter.ts): the pretty-printing  *)
(* Ion text writer.  The writer's state is the container stack             *)
(* (containerContext), the indent counter (indentCount) and the bytes      *)
(* appended to the sink (writeable); indentSize and prettify_depth are     *)
(* fixed by the constructor.  One action per public write operation.       *)
(*                                                                         *)
(* The base class TextWriter, the Context frames, CharCodes and the raw    *)
(* payload serializers are imported by the source file and are not part    *)
(* of it; they are modelled from their description in spec.md (sections    *)
(* 2, 3 and 6).                                                            *)
(***************************************************************************)
EXTENDS Integers, Sequences, FiniteSets, TLC

VARIABLES indentSize, prettify_depth, containerContext, indentCount,
          writeable, thrown, calls

vars == <<indentSize, prettify_depth, containerContext, indentCount,
          writeable, thrown, calls>>

---------------------------------------------------------------------------
(* Bounds of the model *)

\* calls made on one writer
MaxCalls == 5
\* open containers
MaxDepth == 3
\* calls made on one writer of the default configuration
MaxCallsDefault == 6

---------------------------------------------------------------------------
(* CharCodes (IonText), the ASCII bytes the writer emits *)

LINE_FEED == 10
SPACE == 32
LEFT_PARENTHESIS == 40
RIGHT_PARENTHESIS == 41
COMMA == 44
COLON == 58
LEFT_BRACKET == 91
RIGHT_BRACKET == 93
LEFT_BRACE == 123
RIGHT_BRACE == 125

\* prettify_depth defaults to Infinity: a number above every depth
Infinity == 1000

IndentSizes == {0, 2}
PrettifyDepths == {1, 2, Infinity}

ContainerTypes == {"LIST", "SEXP", "STRUCT"}
FieldNames == {"a", "b"}
\* the values of the generic scalar path; "null" is the JavaScript null
Values == {"1", "2", "null"}

\* the messages of the errors the writer throws
NoError == "none"
ErrOutsideStruct == "Cannot write field name outside of a struct"
ErrStructValue == "Expecting a struct value"
ErrNotInContainer == "Can't step out when not in a container"
ErrStructField == "Expecting a struct field"
ErrContainerType == "Unexpected container type"

---------------------------------------------------------------------------
(* TextWriter: the container stack *)

\* new Context(type): a frame starts clean; only a STRUCT starts by
\* expecting a field name
Context(type) ==
  [containerType |-> type,
   state |-> IF type = "STRUCT" THEN "STRUCT_FIELD" ELSE "VALUE",
   clean |-> TRUE]

\* the writer state the helpers thread through a call
Writer(cc, ic, w) == [cc |-> cc, ic |-> ic, w |-> w, thrown |-> NoError]

depth(st) == Len(st.cc) - 1

currentContainer(st) == st.cc[Len(st.cc)]

setCurrent(st, frame) == [st EXCEPT !.cc[Len(st.cc)] = frame]

_stepIn(st, type) == [st EXCEPT !.cc = Append(@, Context(type))]

writeByte(st, b) == [st EXCEPT !.w = Append(@, b)]

RECURSIVE writeBytes(_, _)
writeBytes(st, bs) ==
  IF bs = <<>> THEN st ELSE writeBytes(writeByte(st, Head(bs)), Tail(bs))

throw(st, msg) == [st EXCEPT !.thrown = msg]

\* the raw serializers: payload bytes, no layout
writeSymbolToken(st, fieldName) ==
  writeBytes(st, IF fieldName = "a" THEN <<97>> ELSE <<98>>)

serialize(st, value) ==
  writeBytes(st, IF value = "1" THEN <<49>> ELSE <<50>>)

\* "null" for the untyped null, "null.int" for a typed one
_writeNull(st, type) ==
  writeBytes(st, IF type = "NULL" THEN <<110, 117, 108, 108>>
                 ELSE <<110, 117, 108, 108, 46, 105, 110, 116>>)

\* no annotation is pending in the model
writeAnnotations(st) == st

---------------------------------------------------------------------------
(* PrettyTextWriter: the layout helpers *)

\* writePrettyNewLine that ignores indentSize
writePrettyNewLine_NoSizeCheck(st, incrementValue) ==
  LET s1 == [st EXCEPT !.ic = @ + incrementValue]
  IN IF depth(s1) < prettify_depth
     THEN writeByte(s1, LINE_FEED)
     ELSE s1

\* writePrettyNewLine that counts the indentation only when it breaks
\* the line
writePrettyNewLine_CountWhenEmitting(st, incrementValue) ==
  IF indentSize > 0 /\ depth(st) < prettify_depth
  THEN writeByte([st EXCEPT !.ic = @ + incrementValue], LINE_FEED)
  ELSE st

\* writePrettyNewLine that ignores prettify_depth
writePrettyNewLine_NoDepthCheck(st, incrementValue) ==
  LET s1 == [st EXCEPT !.ic = @ + incrementValue]
  IN IF indentSize > 0
     THEN writeByte(s1, LINE_FEED)
     ELSE s1

writePrettyNewLine(st, incrementValue) ==
  LET s1 == [st EXCEPT !.ic = @ + incrementValue]
  IN IF indentSize > 0 /\ depth(s1) < prettify_depth
     THEN writeByte(s1, LINE_FEED)
     ELSE s1

\* writePrettyIndent that ignores prettify_depth
writePrettyIndent_NoDepthCheck(st, incrementValue) ==
  LET s1 == [st EXCEPT !.ic = @ + incrementValue]
  IN IF indentSize > 0
     THEN writeBytes(s1, [i \in 1..(s1.ic * indentSize) |-> SPACE])
     ELSE s1

writePrettyIndent(st, incrementValue) ==
  LET s1 == [st EXCEPT !.ic = @ + incrementValue]
  IN IF indentSize > 0 /\ depth(s1) < prettify_depth
     THEN writeBytes(s1, [i \in 1..(s1.ic * indentSize) |-> SPACE])
     ELSE s1

\* writePrettyValue that indents the value of a struct field too
writePrettyValue_IndentInStruct(st) ==
  IF /\ depth(st) > 0
     /\ currentContainer(st).containerType # "null"
  THEN writePrettyIndent(st, 0)
  ELSE st

writePrettyValue(st) ==
  IF /\ depth(st) > 0
     /\ currentContainer(st).containerType # "null"
     /\ currentContainer(st).containerType # "STRUCT"
  THEN writePrettyIndent(st, 0)
  ELSE st

markDirty(st) == setCurrent(st, [currentContainer(st) EXCEPT !.clean = FALSE])

\* handleSeparator that separates top-level values like list elements
handleSeparator_TopComma(st) ==
  IF currentContainer(st).clean
  THEN markDirty(st)
  ELSE CASE currentContainer(st).containerType = "SEXP" ->
              LET s1 == writeByte(st, SPACE)
              IN IF depth(s1) < prettify_depth
                 THEN writePrettyNewLine(s1, 0) ELSE s1
         [] currentContainer(st).containerType = "STRUCT" -> st
         [] OTHER ->
              LET s1 == writeByte(st, COMMA)
              IN IF depth(s1) < prettify_depth
                 THEN writePrettyNewLine(s1, 0) ELSE s1

\* handleSeparator that never breaks the line after a separator
handleSeparator_NoNewLine(st) ==
  IF depth(st) = 0
  THEN IF currentContainer(st).clean
       THEN markDirty(st)
       ELSE writeByte(st, LINE_FEED)
  ELSE IF currentContainer(st).clean
       THEN markDirty(st)
       ELSE CASE currentContainer(st).containerType = "LIST" ->
                   writeByte(st, COMMA)
              [] currentContainer(st).containerType = "SEXP" ->
                   writeByte(st, SPACE)
              [] OTHER -> st

\* handleSeparator that separates s-expression elements by the line break
\* alone
handleSeparator_SexpNoSpace(st) ==
  IF depth(st) = 0
  THEN IF currentContainer(st).clean
       THEN markDirty(st)
       ELSE writeByte(st, LINE_FEED)
  ELSE IF currentContainer(st).clean
       THEN markDirty(st)
       ELSE CASE currentContainer(st).containerType = "LIST" ->
                   LET s1 == writeByte(st, COMMA)
                   IN IF depth(s1) < prettify_depth
                      THEN writePrettyNewLine(s1, 0) ELSE s1
              [] currentContainer(st).containerType = "SEXP" ->
                   IF depth(st) < prettify_depth
                   THEN writePrettyNewLine(st, 0) ELSE writeByte(st, SPACE)
              [] OTHER -> st

handleSeparator(st) ==
  IF depth(st) = 0
  THEN IF currentContainer(st).clean
       THEN markDirty(st)
       ELSE writeByte(st, LINE_FEED)
  ELSE IF currentContainer(st).clean
       THEN markDirty(st)
       ELSE CASE currentContainer(st).containerType = "LIST" ->
                   LET s1 == writeByte(st, COMMA)
                   IN IF depth(s1) < prettify_depth
                      THEN writePrettyNewLine(s1, 0) ELSE s1
              [] currentContainer(st).containerType = "SEXP" ->
                   LET s1 == writeByte(st, SPACE)
                   IN IF depth(s1) < prettify_depth
                      THEN writePrettyNewLine(s1, 0) ELSE s1
              [] OTHER -> st

\* the tail of writeNull and _serializeValue: a value written in a STRUCT
\* makes the struct expect a field name again
expectField(st) ==
  IF currentContainer(st).containerType = "STRUCT"
  THEN setCurrent(st, [currentContainer(st) EXCEPT !.state = "STRUCT_FIELD"])
  ELSE st

---------------------------------------------------------------------------
(* PrettyTextWriter: the write operations, as functions of the state *)

\* writeFieldName with the check of the struct's state left out
doWriteFieldName_NoStateCheck(st, fieldName) ==
  IF currentContainer(st).containerType # "STRUCT"
  THEN throw(st, ErrOutsideStruct)
  ELSE
    LET s1 == IF ~currentContainer(st).clean
              THEN writePrettyNewLine(writeByte(st, COMMA), 0)
              ELSE st
        s2 == writePrettyIndent(s1, 0)
        s3 == writeSymbolToken(s2, fieldName)
        s4 == writeByte(writeByte(s3, COLON), SPACE)
    IN setCurrent(s4, [currentContainer(s4) EXCEPT !.state = "VALUE"])

doWriteFieldName(st, fieldName) ==
  IF currentContainer(st).containerType # "STRUCT"
  THEN throw(st, ErrOutsideStruct)
  ELSE IF currentContainer(st).state # "STRUCT_FIELD"
  THEN throw(st, ErrStructValue)
  ELSE
    LET s1 == IF ~currentContainer(st).clean
              THEN writePrettyNewLine(writeByte(st, COMMA), 0)
              ELSE st
        s2 == writePrettyIndent(s1, 0)
        s3 == writeSymbolToken(s2, fieldName)
        s4 == writeByte(writeByte(s3, COLON), SPACE)
    IN setCurrent(s4, [currentContainer(s4) EXCEPT !.state = "VALUE"])

doWriteNull(st, type) ==
  LET s1 == handleSeparator(st)
      s2 == writePrettyValue(s1)
      s3 == writeAnnotations(s2)
      s4 == _writeNull(s3, type)
  IN expectField(s4)

\* the closing delimiters of LIST and SEXP exchanged
closingByte_Swapped(type) ==
  CASE type = "LIST" -> RIGHT_PARENTHESIS
    [] type = "SEXP" -> RIGHT_BRACKET
    [] type = "STRUCT" -> RIGHT_BRACE

closingByte(type) ==
  CASE type = "LIST" -> RIGHT_BRACKET
    [] type = "SEXP" -> RIGHT_PARENTHESIS
    [] type = "STRUCT" -> RIGHT_BRACE

\* stepOut without the check for a struct field that awaits its value
doStepOut_NoValueCheck(st) ==
  LET popped == st.cc[Len(st.cc)]
      s0 == [st EXCEPT !.cc = SubSeq(@, 1, Len(@) - 1)]
  IN IF popped.containerType = "null"
     THEN throw(s0, ErrNotInContainer)
     ELSE
       LET s1 == IF depth(s0) < prettify_depth - 1
                 THEN writePrettyIndent(
                        IF ~popped.clean THEN writePrettyNewLine(s0, 0)
                        ELSE s0, -1)
                 ELSE s0
       IN writeByte(s1, closingByte(popped.containerType))

\* stepOut that breaks the line before the closing delimiter of an empty
\* container too
doStepOut_AlwaysNewLine(st) ==
  LET popped == st.cc[Len(st.cc)]
      s0 == [st EXCEPT !.cc = SubSeq(@, 1, Len(@) - 1)]
  IN IF popped.containerType = "null"
     THEN throw(s0, ErrNotInContainer)
     ELSE IF popped.containerType = "STRUCT" /\ popped.state = "VALUE"
     THEN throw(s0, ErrStructValue)
     ELSE
       LET s1 == IF depth(s0) < prettify_depth - 1
                 THEN writePrettyIndent(writePrettyNewLine(s0, 0), -1)
                 ELSE s0
       IN writeByte(s1, closingByte(popped.containerType))

\* stepOut that accepts the top-level frame as a container
doStepOut_NoTopCheck(st) ==
  LET popped == st.cc[Len(st.cc)]
      s0 == [st EXCEPT !.cc = SubSeq(@, 1, Len(@) - 1)]
  IN IF popped.containerType = "STRUCT" /\ popped.state = "VALUE"
     THEN throw(s0, ErrStructValue)
     ELSE
       LET s1 == IF depth(s0) < prettify_depth - 1
                 THEN writePrettyIndent(
                        IF ~popped.clean THEN writePrettyNewLine(s0, 0)
                        ELSE s0, -1)
                 ELSE s0
       IN IF popped.containerType \in ContainerTypes
          THEN writeByte(s1, closingByte(popped.containerType))
          ELSE throw(s1, ErrContainerType)

\* stepOut that checks the innermost frame before it removes it
doStepOut_CheckBeforePop(st) ==
  LET popped == st.cc[Len(st.cc)]
      s0 == [st EXCEPT !.cc = SubSeq(@, 1, Len(@) - 1)]
  IN IF popped.containerType = "null"
     THEN throw(st, ErrNotInContainer)
     ELSE IF popped.containerType = "STRUCT" /\ popped.state = "VALUE"
     THEN throw(st, ErrStructValue)
     ELSE
       LET s1 == IF depth(s0) < prettify_depth - 1
                 THEN writePrettyIndent(
                        IF ~popped.clean THEN writePrettyNewLine(s0, 0)
                        ELSE s0, -1)
                 ELSE s0
       IN writeByte(s1, closingByte(popped.containerType))

doStepOut(st) ==
  IF st.cc = <<>>
  THEN throw(st, ErrNotInContainer)
  ELSE
    LET popped == st.cc[Len(st.cc)]
        s0 == [st EXCEPT !.cc = SubSeq(@, 1, Len(@) - 1)]
    IN IF popped.containerType = "null"
       THEN throw(s0, ErrNotInContainer)
       ELSE IF popped.containerType = "STRUCT" /\ popped.state = "VALUE"
       THEN throw(s0, ErrStructValue)
       ELSE
         LET s1 == IF depth(s0) < prettify_depth - 1
                   THEN writePrettyIndent(
                          IF ~popped.clean THEN writePrettyNewLine(s0, 0)
                          ELSE s0, -1)
                   ELSE s0
         IN IF popped.containerType \in ContainerTypes
            THEN writeByte(s1, closingByte(popped.containerType))
            ELSE throw(s1, ErrContainerType)

\* _serializeValue with the null redirection ahead of the state check
doSerializeValue_NullFirst(st, type, value) ==
  IF value = "null"
  THEN doWriteNull(st, type)
  ELSE IF currentContainer(st).state = "STRUCT_FIELD"
  THEN throw(st, ErrStructField)
  ELSE
    LET s1 == handleSeparator(st)
        s2 == writePrettyValue(s1)
        s3 == writeAnnotations(s2)
        s4 == serialize(s3, value)
    IN expectField(s4)

\* _serializeValue that handles the separator before it checks the state
doSerializeValue_LateCheck(st, type, value) ==
  LET s1 == handleSeparator(st)
  IN IF currentContainer(st).state = "STRUCT_FIELD"
     THEN throw(s1, ErrStructField)
     ELSE IF value = "null"
     THEN doWriteNull(st, type)
     ELSE
       LET s2 == writePrettyValue(s1)
           s3 == writeAnnotations(s2)
           s4 == serialize(s3, value)
       IN expectField(s4)

doSerializeValue(st, type, value) ==
  IF currentContainer(st).state = "STRUCT_FIELD"
  THEN throw(st, ErrStructField)
  ELSE IF value = "null"
  THEN doWriteNull(st, type)
  ELSE
    LET s1 == handleSeparator(st)
        s2 == writePrettyValue(s1)
        s3 == writeAnnotations(s2)
        s4 == serialize(s3, value)
    IN expectField(s4)

\* writeContainer that leaves the enclosing struct waiting for its value
doWriteContainer_NoStateFlip(st, type, openingCharacter) ==
  LET s1 == handleSeparator(st)
      s2 == writePrettyValue(s1)
      s3 == writeAnnotations(s2)
      s4 == writeByte(s3, openingCharacter)
      s5 == IF depth(s4) < prettify_depth - 1
            THEN writePrettyNewLine(s4, 1)
            ELSE s4
  IN _stepIn(s5, type)

\* writeContainer that does not indent its opening delimiter
doWriteContainer_NoPrettyValue(st, type, openingCharacter) ==
  LET s0 == IF /\ currentContainer(st).containerType = "STRUCT"
               /\ currentContainer(st).state = "VALUE"
            THEN setCurrent(st, [currentContainer(st)
                                   EXCEPT !.state = "STRUCT_FIELD"])
            ELSE st
      s1 == handleSeparator(s0)
      s3 == writeAnnotations(s1)
      s4 == writeByte(s3, openingCharacter)
      s5 == IF depth(s4) < prettify_depth - 1
            THEN writePrettyNewLine(s4, 1)
            ELSE s4
  IN _stepIn(s5, type)

doWriteContainer(st, type, openingCharacter) ==
  LET s0 == IF /\ currentContainer(st).containerType = "STRUCT"
               /\ currentContainer(st).state = "VALUE"
            THEN setCurrent(st, [currentContainer(st)
                                   EXCEPT !.state = "STRUCT_FIELD"])
            ELSE st
      s1 == handleSeparator(s0)
      s2 == writePrettyValue(s1)
      s3 == writeAnnotations(s2)
      s4 == writeByte(s3, openingCharacter)
      s5 == IF depth(s4) < prettify_depth - 1
            THEN writePrettyNewLine(s4, 1)
            ELSE s4
  IN _stepIn(s5, type)

openingByte(type) ==
  CASE type = "LIST" -> LEFT_BRACKET
    [] type = "SEXP" -> LEFT_PARENTHESIS
    [] type = "STRUCT" -> LEFT_BRACE

---------------------------------------------------------------------------
(* The state machine *)

Init ==
  /\ indentSize \in IndentSizes
  /\ prettify_depth \in PrettifyDepths
  /\ containerContext = <<Context("null")>>
  /\ indentCount = 0
  /\ writeable = <<>>
  /\ thrown = NoError
  /\ calls = <<>>

Now == Writer(containerContext, indentCount, writeable)

\* a failed structural check is fatal for the writer: the caller discards
\* it, so a call is made only while nothing has been thrown
CanCallWithin(limit) == thrown = NoError /\ Len(calls) < limit

CanCall == CanCallWithin(MaxCalls)

Commit(st, op, arg) ==
  /\ containerContext' = st.cc
  /\ indentCount' = st.ic
  /\ writeable' = st.w
  /\ thrown' = st.thrown
  /\ calls' = Append(calls, [op |-> op, arg |-> arg])
  /\ UNCHANGED <<indentSize, prettify_depth>>

writeFieldNameWithin(limit) ==
  /\ CanCallWithin(limit)
  /\ \E fieldName \in FieldNames :
       Commit(doWriteFieldName(Now, fieldName), "writeFieldName", fieldName)

writeNullWithin(limit) ==
  /\ CanCallWithin(limit)
  /\ Commit(doWriteNull(Now, "NULL"), "writeNull", "NULL")

stepOutWithin(limit) ==
  /\ CanCallWithin(limit)
  /\ Commit(doStepOut(Now), "stepOut", "")

_serializeValueWithin(limit) ==
  /\ CanCallWithin(limit)
  /\ \E value \in Values :
       Commit(doSerializeValue(Now, "INT", value), "_serializeValue", value)

writeContainerWithin(limit) ==
  /\ CanCallWithin(limit)
  /\ depth(Now) < MaxDepth
  /\ \E type \in ContainerTypes :
       Commit(doWriteContainer(Now, type, openingByte(type)),
              "writeContainer", type)

writeFieldName == writeFieldNameWithin(MaxCalls)

writeNull == writeNullWithin(MaxCalls)

stepOut == stepOutWithin(MaxCalls)

_serializeValue == _serializeValueWithin(MaxCalls)

writeContainer == writeContainerWithin(MaxCalls)

Next ==
  \/ writeFieldName
  \/ writeNull
  \/ stepOut
  \/ _serializeValue
  \/ writeContainer

Spec == Init /\ [][Next]_vars

\* a writer constructed with the defaults (indentSize 2, prettify_depth
\* Infinity), followed for MaxCallsDefault calls
InitDefault ==
  /\ Init
  /\ indentSize = 2
  /\ prettify_depth = Infinity

NextDefault ==
  \/ writeFieldNameWithin(MaxCallsDefault)
  \/ writeNullWithin(MaxCallsDefault)
  \/ stepOutWithin(MaxCallsDefault)
  \/ _serializeValueWithin(MaxCallsDefault)
  \/ writeContainerWithin(MaxCallsDefault)

SpecDefault == InitDefault /\ [][NextDefault]_vars

---------------------------------------------------------------------------
(* Vocabulary of the properties *)

\* the frame a call finds on top of the stack
Top == containerContext[Len(containerContext)]

\* the nesting depth a call finds
Depth == Len(containerContext) - 1

\* a call was made in this step
Called == calls' # calls

\* the call made in this step
Call == calls'[Len(calls')]

\* the last call made
Last == calls[Len(calls)]

\* the bytes the call of this step appended to the sink
Emitted == SubSeq(writeable', Len(writeable) + 1, Len(writeable'))

StructuralErrors ==
  {ErrOutsideStruct, ErrStructValue, ErrNotInContainer, ErrStructField}

AwaitsFieldName ==
  Top.containerType = "STRUCT" /\ Top.state = "STRUCT_FIELD"

AwaitsFieldValue ==
  Top.containerType = "STRUCT" /\ Top.state = "VALUE"

Openers == {LEFT_BRACKET, LEFT_PARENTHESIS, LEFT_BRACE}
Closers == {RIGHT_BRACKET, RIGHT_PARENTHESIS, RIGHT_BRACE}

IsCloser(b) == b \in Closers
IsDelimiter(b) == b \in Openers \cup Closers

TypeOfDelimiter(b) ==
  CASE b \in {LEFT_BRACKET, RIGHT_BRACKET} -> "LIST"
    [] b \in {LEFT_PARENTHESIS, RIGHT_PARENTHESIS} -> "SEXP"
    [] b \in {LEFT_BRACE, RIGHT_BRACE} -> "STRUCT"

\* the types of the containers a delimiter sequence leaves open, innermost
\* last; <<"MISMATCH">> as soon as a closing delimiter does not match the
\* innermost open one
RECURSIVE OpenAfter(_, _)
OpenAfter(ds, open) ==
  IF ds = <<>> THEN open
  ELSE IF Head(ds) \in Openers
  THEN OpenAfter(Tail(ds), Append(open, TypeOfDelimiter(Head(ds))))
  ELSE IF open # <<>> /\ open[Len(open)] = TypeOfDelimiter(Head(ds))
  THEN OpenAfter(Tail(ds), SubSeq(open, 1, Len(open) - 1))
  ELSE <<"MISMATCH">>

---------------------------------------------------------------------------
(* Properties *)

\* C1: writeFieldName succeeds exactly when the innermost container is a
\* STRUCT in state STRUCT_FIELD; at top level, in a LIST or SEXP, and in a
\* STRUCT that awaits a field's value it fails with a structural error.
C1_FieldNameGrammar ==
  [][(Called /\ Call.op = "writeFieldName") =>
       IF AwaitsFieldName
       THEN thrown' = NoError
       ELSE thrown' \in {ErrOutsideStruct, ErrStructValue}]_vars

C1_Witness ==
  /\ calls # <<>>
  /\ Last.op = "writeFieldName"
  /\ thrown = ErrStructValue
  /\ Top.containerType = "STRUCT" /\ Top.state = "VALUE"

\* C2: a value written through _serializeValue (null or not) while the
\* innermost container is a STRUCT in state STRUCT_FIELD fails with a
\* structural error, before any separator handling: no byte is emitted and
\* no frame changes.
C2_ValueNeedsFieldName ==
  [][(Called /\ Call.op = "_serializeValue" /\ AwaitsFieldName) =>
       /\ thrown' = ErrStructField
       /\ writeable' = writeable
       /\ containerContext' = containerContext]_vars

C2_Witness ==
  /\ calls # <<>>
  /\ Last.op = "_serializeValue" /\ Last.arg = "null"
  /\ thrown = ErrStructField
  /\ Top.containerType = "STRUCT" /\ Top.state = "STRUCT_FIELD"

\* C3: writeNull and writeContainer, called while the innermost container
\* is a STRUCT in state STRUCT_FIELD, fail with a structural error and
\* write nothing.
C3_NullAndContainerNeedFieldName ==
  [][(Called /\ Call.op \in {"writeNull", "writeContainer"}
        /\ AwaitsFieldName) =>
       /\ thrown' \in StructuralErrors
       /\ writeable' = writeable]_vars

\* C4: stepOut fails, emitting nothing, exactly at depth 0 and in a STRUCT
\* that awaits a field's value; everywhere else it succeeds and emits
\* exactly one closing delimiter.
C4_StepOutGrammar ==
  [][(Called /\ Call.op = "stepOut") =>
       IF Depth = 0 \/ AwaitsFieldValue
       THEN /\ thrown' = (IF Depth = 0 THEN ErrNotInContainer
                          ELSE ErrStructValue)
            /\ writeable' = writeable
       ELSE /\ thrown' = NoError
            /\ Len(SelectSeq(Emitted, IsCloser)) = 1
            /\ IsCloser(writeable'[Len(writeable')])]_vars

C4_Witness ==
  /\ calls # <<>>
  /\ Last.op = "stepOut"
  /\ thrown = ErrStructValue

\* C5: as long as every call succeeded, the delimiter bytes of the output
\* are well nested, each closing delimiter being the one of the innermost
\* open container, and the containers they leave open are the frames of
\* the stack; with all containers closed the delimiters are balanced.
C5_DelimitersBalanced ==
  thrown = NoError =>
    OpenAfter(SelectSeq(writeable, IsDelimiter), <<>>) =
      [i \in 1..Depth |-> containerContext[i + 1].containerType]

C5_Witness ==
  /\ thrown = NoError
  /\ Depth = 0
  /\ Len(SelectSeq(writeable, IsDelimiter)) >= 4
  /\ RIGHT_BRACE \in {writeable[i] : i \in 1..Len(writeable)}
  /\ RIGHT_PARENTHESIS \in {writeable[i] : i \in 1..Len(writeable)}

---------------------------------------------------------------------------
(* Vocabulary of the layout properties *)

ElementOps == {"writeNull", "_serializeValue", "writeContainer"}

IsLayout(b) == b \in {LINE_FEED, SPACE, COMMA, COLON}

Layout(bs) == SelectSeq(bs, IsLayout)

Spaces(n) == [i \in 1..n |-> SPACE]

Bytes(bs) == {bs[i] : i \in 1..Len(bs)}

\* the separator and line-break bytes a call emits ahead of its payload
LayoutPrefix(bs) ==
  LET n == CHOOSE m \in 0..Len(bs) :
             /\ \A i \in 1..m : bs[i] \in {LINE_FEED, SPACE, COMMA}
             /\ (m = Len(bs) \/ bs[m + 1] \notin {LINE_FEED, SPACE, COMMA})
  IN SubSeq(bs, 1, n)

\* the layout bytes of a call in compact output: the mandatory separators,
\* with topSeparator between two top-level values
CompactLayout(topSeparator) ==
  CASE Call.op \in ElementOps ->
         IF Top.clean THEN <<>>
         ELSE IF Depth = 0 THEN topSeparator
         ELSE IF Top.containerType = "LIST" THEN <<COMMA>>
         ELSE IF Top.containerType = "SEXP" THEN <<SPACE>>
         ELSE <<>>
    [] Call.op = "writeFieldName" ->
         (IF Top.clean THEN <<>> ELSE <<COMMA>>) \o <<COLON, SPACE>>
    [] OTHER -> <<>>

\* an empty writer state, to name the payload bytes of a value
Blank == Writer(<<Context("null")>>, 0, <<>>)

\* the output with every container reduced to its opening delimiter: the
\* bytes written at nesting depth 0
RECURSIVE TopLevel(_, _)
TopLevel(bs, nesting) ==
  IF bs = <<>> THEN <<>>
  ELSE IF Head(bs) \in Openers
  THEN (IF nesting = 0 THEN <<Head(bs)>> ELSE <<>>)
         \o TopLevel(Tail(bs), nesting + 1)
  ELSE IF Head(bs) \in Closers
  THEN TopLevel(Tail(bs), nesting - 1)
  ELSE (IF nesting = 0 THEN <<Head(bs)>> ELSE <<>>)
         \o TopLevel(Tail(bs), nesting)

\* the pieces of a byte sequence between its line feeds
RECURSIVE SplitLines(_, _)
SplitLines(bs, piece) ==
  IF bs = <<>> THEN <<piece>>
  ELSE IF Head(bs) = LINE_FEED
  THEN <<piece>> \o SplitLines(Tail(bs), <<>>)
  ELSE SplitLines(Tail(bs), Append(piece, Head(bs)))

\* what one top-level value looks like in TopLevel
TopLevelValues ==
  {serialize(Blank, v).w : v \in Values \ {"null"}}
    \cup {_writeNull(Blank, "NULL").w, _writeNull(Blank, "INT").w}
    \cup {<<b>> : b \in Openers}

\* the calls so far wrote one top-level LIST of scalars and closed it
IsScalarList ==
  /\ Len(calls) >= 3
  /\ calls[1] = [op |-> "writeContainer", arg |-> "LIST"]
  /\ Last.op = "stepOut"
  /\ \A i \in 2..(Len(calls) - 1) :
       calls[i].op = "_serializeValue" /\ calls[i].arg # "null"

RECURSIVE ListElements(_)
ListElements(cs) ==
  Spaces(2) \o serialize(Blank, Head(cs).arg).w
    \o (IF Len(cs) = 1 THEN <<>>
        ELSE <<COMMA, LINE_FEED>> \o ListElements(Tail(cs)))

---------------------------------------------------------------------------
(* Layout properties *)

\* C6 as claimed: a container opened and closed at once leaves no byte at
\* all between its two delimiters, in every configuration.
C6_EmptyContainerNoInterior ==
  (/\ thrown = NoError
   /\ Len(calls) >= 2
   /\ Last.op = "stepOut"
   /\ calls[Len(calls) - 1].op = "writeContainer") =>
    /\ Len(writeable) >= 2
    /\ SubSeq(writeable, Len(writeable) - 1, Len(writeable)) =
         <<openingByte(calls[Len(calls) - 1].arg),
           closingByte(calls[Len(calls) - 1].arg)>>

\* C6 (amended): a container opened at nesting depth k and closed at once
\* has no separator between its delimiters; it has no byte at all when
\* indentSize = 0 or k >= prettify_depth, and otherwise exactly one line
\* feed followed by the (k - 1) * indentSize spaces that indent the
\* closing delimiter.
C6_EmptyContainerInterior ==
  (/\ thrown = NoError
   /\ Len(calls) >= 2
   /\ Last.op = "stepOut"
   /\ calls[Len(calls) - 1].op = "writeContainer") =>
    LET k == Depth + 1
        interior == IF indentSize > 0 /\ k < prettify_depth
                    THEN <<LINE_FEED>> \o Spaces((k - 1) * indentSize)
                    ELSE <<>>
        first == Len(writeable) - Len(interior) - 1
    IN /\ first >= 1
       /\ SubSeq(writeable, first, Len(writeable)) =
            <<openingByte(calls[Len(calls) - 1].arg)>> \o interior
              \o <<closingByte(calls[Len(calls) - 1].arg)>>

C6_Witness ==
  /\ thrown = NoError
  /\ indentSize = 2 /\ prettify_depth = Infinity
  /\ Len(calls) = 3
  /\ calls[1].op = "writeContainer"
  /\ calls[2].op = "writeContainer"
  /\ calls[3].op = "stepOut"

\* C7 as claimed: with indentSize = 0 the layout bytes of every successful
\* call are only the mandatory separators (comma, s-expression space,
\* colon and space after a field name); no line feed at all, not even
\* between top-level values.
C7_CompactNoLineFeed ==
  [][(indentSize = 0 /\ Called /\ thrown' = NoError) =>
       Layout(Emitted) = CompactLayout(<<>>)]_vars

\* C7 (amended): with indentSize = 0 the layout bytes of every successful
\* call are only the mandatory separators: the comma, the s-expression
\* space, the colon and space after a field name, and the single line feed
\* between two consecutive top-level values.
C7_CompactLayout ==
  [][(indentSize = 0 /\ Called /\ thrown' = NoError) =>
       Layout(Emitted) = CompactLayout(<<LINE_FEED>>)]_vars

C7_Witness ==
  /\ indentSize = 0
  /\ thrown = NoError
  /\ Depth = 0
  /\ LINE_FEED \in Bytes(writeable)
  /\ SPACE \in Bytes(writeable)

\* C8: with indentSize = s > 0, a call made at nesting depth k >=
\* prettify_depth emits no line feed and no indentation before its element,
\* field name or closing delimiter (at most the one separator byte), and a
\* LIST/SEXP element or a field name written at depth 1 <= k <
\* prettify_depth follows a line feed and exactly k * s spaces.
C8_ThresholdLayout ==
  [][(indentSize > 0 /\ Called /\ thrown' = NoError) =>
       LET k == Depth
           prefix == LayoutPrefix(Emitted)
           at == Len(writeable) + Len(prefix) + 1
           n == k * indentSize
       IN /\ (k >= prettify_depth
                /\ Call.op \in ElementOps \cup {"writeFieldName"}) =>
               /\ LINE_FEED \notin Bytes(prefix)
               /\ Len(prefix) <= 1
               /\ prefix = <<SPACE>> =>
                    (/\ Call.op \in ElementOps
                     /\ Top.containerType = "SEXP"
                     /\ ~Top.clean)
          /\ (k >= prettify_depth /\ Call.op = "stepOut") =>
               Len(Emitted) = 1
          /\ (/\ 1 <= k
              /\ k < prettify_depth
              /\ \/ Call.op = "writeFieldName"
                 \/ /\ Call.op \in ElementOps
                    /\ Top.containerType \in {"LIST", "SEXP"}) =>
               /\ at - n - 1 >= 1
               /\ writeable'[at - n - 1] = LINE_FEED
               /\ \A i \in (at - n)..(at - 1) : writeable'[i] = SPACE]_vars

C8_Witness ==
  /\ indentSize = 2 /\ prettify_depth = 2
  /\ thrown = NoError
  /\ Depth = 2
  /\ Top.containerType = "LIST"
  /\ Len(calls) >= 2
  /\ Last.op = "_serializeValue"
  /\ calls[Len(calls) - 1].op = "_serializeValue"

\* C9: as long as every call succeeded, the bytes written at nesting depth
\* 0 are the top-level values with exactly one line feed between two
\* consecutive ones: nothing before the first, nothing after the last, no
\* comma, in every configuration.
C9_TopLevelLines ==
  (thrown = NoError /\ writeable # <<>>) =>
    LET pieces == SplitLines(TopLevel(writeable, 0), <<>>)
    IN \A i \in 1..Len(pieces) : pieces[i] \in TopLevelValues

C9_Witness ==
  /\ thrown = NoError
  /\ Depth = 0
  /\ LET pieces == SplitLines(TopLevel(writeable, 0), <<>>)
     IN /\ Len(pieces) >= 3
        /\ \E i \in 1..Len(pieces) : pieces[i] = <<LEFT_BRACE>>
        /\ \E i \in 1..Len(pieces) : pieces[i] = <<49>>

\* C10: with indentSize = 2 and prettify_depth = Infinity a top-level LIST
\* of n >= 1 scalars is '[', line feed, the elements each after two spaces
\* and separated by comma and line feed, line feed, ']'; for 1 and 2 the
\* output is [\n  1,\n  2\n].
C10_ScalarListLayout ==
  (/\ indentSize = 2 /\ prettify_depth = Infinity
   /\ thrown = NoError
   /\ IsScalarList) =>
    /\ writeable =
         <<LEFT_BRACKET, LINE_FEED>>
           \o ListElements(SubSeq(calls, 2, Len(calls) - 1))
           \o <<LINE_FEED, RIGHT_BRACKET>>
    /\ Len(SelectSeq(writeable, LAMBDA b : b = COMMA)) = Len(calls) - 3
    /\ (Len(calls) = 4 /\ calls[2].arg = "1" /\ calls[3].arg = "2") =>
         writeable = <<91, 10, 32, 32, 49, 44, 10, 32, 32, 50, 10, 93>>

C10_Witness ==
  /\ indentSize = 2 /\ prettify_depth = Infinity
  /\ thrown = NoError
  /\ IsScalarList
  /\ Len(calls) = 4 /\ calls[2].arg = "1" /\ calls[3].arg = "2"

---------------------------------------------------------------------------
(* Layout of a struct and of an s-expression in the default configuration *)

\* the calls so far wrote one top-level STRUCT of fields with scalar
\* values and closed it
IsScalarStruct ==
  /\ Len(calls) >= 4
  /\ Len(calls) % 2 = 0
  /\ calls[1] = [op |-> "writeContainer", arg |-> "STRUCT"]
  /\ Last.op = "stepOut"
  /\ \A i \in 2..(Len(calls) - 1) :
       IF i % 2 = 0
       THEN calls[i].op = "writeFieldName"
       ELSE calls[i].op = "_serializeValue" /\ calls[i].arg # "null"

\* cs: field name, value, field name, value, ...
RECURSIVE StructFields(_)
StructFields(cs) ==
  Spaces(2) \o writeSymbolToken(Blank, cs[1].arg).w \o <<COLON, SPACE>>
    \o serialize(Blank, cs[2].arg).w
    \o (IF Len(cs) = 2 THEN <<>>
        ELSE <<COMMA, LINE_FEED>> \o StructFields(SubSeq(cs, 3, Len(cs))))

\* C11: with indentSize = 2 and prettify_depth = Infinity a top-level
\* STRUCT of n >= 1 fields with scalar values is '{', line feed, the fields
\* each as two spaces, name, colon, space, value, separated by comma and
\* line feed, then line feed and '}'; for a=1, b=2 the output is
\* {\n  a: 1,\n  b: 2\n}.
C11_ScalarStructLayout ==
  (/\ indentSize = 2 /\ prettify_depth = Infinity
   /\ thrown = NoError
   /\ IsScalarStruct) =>
    /\ writeable =
         <<LEFT_BRACE, LINE_FEED>>
           \o StructFields(SubSeq(calls, 2, Len(calls) - 1))
           \o <<LINE_FEED, RIGHT_BRACE>>
    /\ Len(SelectSeq(writeable, LAMBDA b : b = COMMA)) =
         (Len(calls) - 2) \div 2 - 1
    /\ (/\ Len(calls) = 6
        /\ calls[2].arg = "a" /\ calls[3].arg = "1"
        /\ calls[4].arg = "b" /\ calls[5].arg = "2") =>
         writeable = <<123, 10, 32, 32, 97, 58, 32, 49, 44, 10,
                       32, 32, 98, 58, 32, 50, 10, 125>>

C11_Witness ==
  /\ indentSize = 2 /\ prettify_depth = Infinity
  /\ thrown = NoError
  /\ IsScalarStruct
  /\ Len(calls) = 6
  /\ calls[2].arg = "a" /\ calls[3].arg = "1"
  /\ calls[4].arg = "b" /\ calls[5].arg = "2"

\* the calls so far wrote one top-level SEXP of scalars and closed it
IsScalarSexp ==
  /\ Len(calls) >= 3
  /\ calls[1] = [op |-> "writeContainer", arg |-> "SEXP"]
  /\ Last.op = "stepOut"
  /\ \A i \in 2..(Len(calls) - 1) :
       calls[i].op = "_serializeValue" /\ calls[i].arg # "null"

RECURSIVE SexpElements(_, _)
SexpElements(cs, separator) ==
  Spaces(2) \o serialize(Blank, Head(cs).arg).w
    \o (IF Len(cs) = 1 THEN <<>>
        ELSE separator \o SexpElements(Tail(cs), separator))

\* C12 as claimed: with indentSize = 2 and prettify_depth = Infinity a
\* top-level SEXP of 1 and 2 is (\n  1\n  2\n): between two elements only
\* the line feed and the indentation of the next element.
C12_SexpLineFeedOnly ==
  (/\ indentSize = 2 /\ prettify_depth = Infinity
   /\ thrown = NoError
   /\ IsScalarSexp) =>
    /\ writeable =
         <<LEFT_PARENTHESIS, LINE_FEED>>
           \o SexpElements(SubSeq(calls, 2, Len(calls) - 1), <<LINE_FEED>>)
           \o <<LINE_FEED, RIGHT_PARENTHESIS>>
    /\ (Len(calls) = 4 /\ calls[2].arg = "1" /\ calls[3].arg = "2") =>
         writeable = <<40, 10, 32, 32, 49, 10, 32, 32, 50, 10, 41>>

\* C12 (amended): with indentSize = 2 and prettify_depth = Infinity a
\* top-level SEXP of 1 and 2 is (\n  1 \n  2\n): between two elements
\* stand the separating space, one line feed and the indentation of the
\* next element.
C12_SexpSpaceLineFeed ==
  (/\ indentSize = 2 /\ prettify_depth = Infinity
   /\ thrown = NoError
   /\ IsScalarSexp) =>
    /\ writeable =
         <<LEFT_PARENTHESIS, LINE_FEED>>
           \o SexpElements(SubSeq(calls, 2, Len(calls) - 1),
                           <<SPACE, LINE_FEED>>)
           \o <<LINE_FEED, RIGHT_PARENTHESIS>>
    /\ (Len(calls) = 4 /\ calls[2].arg = "1" /\ calls[3].arg = "2") =>
         writeable = <<40, 10, 32, 32, 49, 32, 10, 32, 32, 50, 10, 41>>

C12_Witness ==
  /\ indentSize = 2 /\ prettify_depth = Infinity
  /\ thrown = NoError
  /\ IsScalarSexp
  /\ Len(calls) = 4 /\ calls[2].arg = "1" /\ calls[3].arg = "2"

---------------------------------------------------------------------------
(* Indent counter and struct state machine *)

Min(a, b) == IF a < b THEN a ELSE b

\* the innermost frame after the call of this step
TopAfter == containerContext'[Len(containerContext')]

\* C13: as long as every call succeeded, indentCount is the number of open
\* containers nested below prettify_depth: min(depth, prettify_depth - 1);
\* never negative, 0 with all containers closed, whatever indentSize is.
C13_IndentCount ==
  thrown = NoError =>
    /\ indentCount = Min(Depth, prettify_depth - 1)
    /\ indentCount >= 0
    /\ Depth = 0 => indentCount = 0

C13_Witness ==
  /\ thrown = NoError
  /\ indentSize = 0
  /\ prettify_depth = 2
  /\ Depth = 3
  /\ indentCount = 1

\* C14: a successful writeFieldName takes the innermost STRUCT from
\* STRUCT_FIELD to VALUE; a successful scalar or null write in a STRUCT
\* leaves it in STRUCT_FIELD; writeContainer puts the enclosing STRUCT in
\* STRUCT_FIELD under the new frame, so that a STRUCT uncovered by stepOut
\* is in STRUCT_FIELD; a new STRUCT frame starts in STRUCT_FIELD.
C14_StructStateMachine ==
  [][(Called /\ thrown' = NoError) =>
       /\ Call.op = "writeFieldName" =>
            /\ Top.state = "STRUCT_FIELD"
            /\ Len(containerContext') = Len(containerContext)
            /\ TopAfter.state = "VALUE"
       /\ (Call.op \in {"writeNull", "_serializeValue"}
             /\ Top.containerType = "STRUCT") =>
            /\ Len(containerContext') = Len(containerContext)
            /\ TopAfter.state = "STRUCT_FIELD"
       /\ Call.op = "writeContainer" =>
            /\ Len(containerContext') = Len(containerContext) + 1
            /\ Top.containerType = "STRUCT" =>
                 containerContext'[Len(containerContext)].state
                   = "STRUCT_FIELD"
            /\ Call.arg = "STRUCT" => TopAfter.state = "STRUCT_FIELD"
       /\ (Call.op = "stepOut" /\ TopAfter.containerType = "STRUCT") =>
            TopAfter.state = "STRUCT_FIELD"]_vars

C14_Witness ==
  /\ thrown = NoError
  /\ Len(calls) >= 4
  /\ Last.op = "stepOut"
  /\ calls[Len(calls) - 1].op = "writeContainer"
  /\ calls[Len(calls) - 2].op = "writeFieldName"
  /\ Top.containerType = "STRUCT"
  /\ Top.state = "STRUCT_FIELD"

\* the number of field names written so far into the innermost open
\* container: the colons of the output at the current nesting depth since
\* that container was opened
RECURSIVE FieldNamesInTop(_, _, _)
FieldNamesInTop(bs, nesting, count) ==
  IF bs = <<>> THEN count
  ELSE IF Head(bs) \in Openers
  THEN FieldNamesInTop(Tail(bs), nesting + 1,
                       IF nesting + 1 = Depth THEN 0 ELSE count)
  ELSE IF Head(bs) \in Closers
  THEN FieldNamesInTop(Tail(bs), nesting - 1, count)
  ELSE FieldNamesInTop(Tail(bs), nesting,
                       IF Head(bs) = COLON /\ nesting = Depth
                       THEN count + 1 ELSE count)

\* the innermost container is a STRUCT that holds a field already
TopHasField ==
  /\ Top.containerType = "STRUCT"
  /\ FieldNamesInTop(writeable, 0, 0) > 0

\* C15 as claimed: with indentSize > 0 a field name that is not the first
\* of its STRUCT is preceded by a comma and a line feed at every nesting
\* depth, also at depth >= prettify_depth.
C15_FieldSeparatorAlwaysBreaks ==
  [][(/\ indentSize > 0
      /\ Called /\ Call.op = "writeFieldName" /\ thrown' = NoError
      /\ TopHasField) =>
       /\ Len(Emitted) >= 2
       /\ Emitted[1] = COMMA
       /\ Emitted[2] = LINE_FEED]_vars

\* C15 (amended): with indentSize > 0 a field name that is not the first
\* of its STRUCT is preceded by a comma, which a line feed follows exactly
\* when the struct's nesting depth is below prettify_depth; at depth >=
\* prettify_depth the field name follows the comma directly.
C15_FieldSeparatorBreaksBelowThreshold ==
  [][(/\ indentSize > 0
      /\ Called /\ Call.op = "writeFieldName" /\ thrown' = NoError
      /\ TopHasField) =>
       /\ Len(Emitted) >= 2
       /\ Emitted[1] = COMMA
       /\ IF Depth < prettify_depth
          THEN Emitted[2] = LINE_FEED
          ELSE Emitted[2] \notin {LINE_FEED, SPACE}]_vars

C15_Witness ==
  /\ thrown = NoError
  /\ indentSize = 2
  /\ prettify_depth = 2
  /\ Depth = 2
  /\ calls # <<>>
  /\ Last.op = "writeFieldName"
  /\ FieldNamesInTop(writeable, 0, 0) = 2

---------------------------------------------------------------------------
(* The clean flag and the separators *)

\* the clean flags of a container stack, outermost first
CleanFlags(cc) == [i \in 1..Len(cc) |-> cc[i].clean]

\* the number of indentation spaces a call made now emits
Indentation ==
  IF indentSize > 0 /\ Depth < prettify_depth
  THEN indentCount * indentSize
  ELSE 0

\* the call of this step emitted a separator ahead of its payload: a comma,
\* a space that is not indentation, or the line feed between top-level
\* values
SeparatorEmitted ==
  LET prefix == LayoutPrefix(Emitted)
  IN \/ COMMA \in Bytes(prefix)
     \/ Len(SelectSeq(prefix, LAMBDA b : b = SPACE)) > Indentation
     \/ Depth = 0 /\ LINE_FEED \in Bytes(prefix)

\* the clean flags after a successful call: a new frame is clean, a value
\* (scalar, null or container) clears the flag of the frame it is written
\* into, no flag is ever set again, writeFieldName changes none
CleanFlagSteps ==
  LET before == CleanFlags(containerContext)
      after == CleanFlags(containerContext')
      n == Len(before)
      written == [before EXCEPT ![n] = FALSE]
  IN /\ Call.op = "writeFieldName" => after = before
     /\ Call.op \in {"writeNull", "_serializeValue"} => after = written
     /\ Call.op = "writeContainer" => after = Append(written, TRUE)
     /\ Call.op = "stepOut" => after = SubSeq(before, 1, n - 1)

\* C16: every frame starts clean, the first value written into it clears
\* the flag for good and writeFieldName never changes it; hence a
\* separator precedes an element or a field name exactly when the
\* container already holds a value.  An element is a value that is not
\* the value of an announced field.
C16_CleanFlagAndSeparators ==
  [][(Called /\ thrown' = NoError) =>
       /\ CleanFlagSteps
       /\ (\/ Call.op = "writeFieldName"
           \/ Call.op \in ElementOps /\ ~AwaitsFieldValue) =>
            (SeparatorEmitted <=> ~Top.clean)]_vars

\* C16 holds wherever a STRUCT is written with field names: the
\* elements of the top level, of a LIST and of a SEXP, and the field names
C16_CleanFlagAndSeparatorsOfNamedValues ==
  [][(Called /\ thrown' = NoError) =>
       /\ CleanFlagSteps
       /\ (\/ Call.op = "writeFieldName"
           \/ Call.op \in ElementOps /\ Top.containerType # "STRUCT") =>
            (SeparatorEmitted <=> ~Top.clean)]_vars

---------------------------------------------------------------------------
(* Containers and scalars side by side; failing calls *)

\* the layout bytes a call that leads from the current state to st emits
\* ahead of its payload
LayoutPrefixOf(st) ==
  LayoutPrefix(SubSeq(st.w, Len(writeable) + 1, Len(st.w)))

\* C17: wherever a scalar write and a container opening are both accepted,
\* the layout bytes ahead of the opening delimiter are those ahead of the
\* scalar's payload (separator, line feed, indentation), and both leave
\* the enclosing frame's clean flag false.
C17_ContainerLaidOutAsScalar ==
  [][(Called /\ thrown' = NoError) =>
       /\ Call.op = "writeContainer" =>
            \A v \in Values :
              LET scalar == doSerializeValue(Now, "INT", v)
              IN scalar.thrown = NoError =>
                   /\ LayoutPrefixOf(scalar) = LayoutPrefix(Emitted)
                   /\ ~scalar.cc[Len(containerContext)].clean
                   /\ ~containerContext'[Len(containerContext)].clean
       /\ Call.op = "_serializeValue" =>
            \A t \in ContainerTypes :
              LET container == doWriteContainer(Now, t, openingByte(t))
              IN /\ LayoutPrefixOf(container) = LayoutPrefix(Emitted)
                 /\ ~container.cc[Len(containerContext)].clean
                 /\ ~TopAfter.clean]_vars

C17_Witness ==
  /\ thrown = NoError
  /\ indentSize = 2 /\ prettify_depth = Infinity
  /\ Len(calls) >= 3
  /\ Last.op = "writeContainer"
  /\ calls[Len(calls) - 1].op = "_serializeValue"
  /\ containerContext[Len(containerContext) - 1].containerType = "LIST"

\* C18: after any sequence of operations every open frame above the
\* top-level frame is a LIST, SEXP or STRUCT, so stepOut never reaches
\* its 'Unexpected container type' error.
C18_NoUnexpectedContainerType ==
  /\ thrown # ErrContainerType
  /\ thrown = NoError =>
       /\ containerContext[1].containerType = "null"
       /\ \A i \in 2..Len(containerContext) :
            containerContext[i].containerType \in ContainerTypes

C18_Witness ==
  /\ thrown = NoError
  /\ calls # <<>>
  /\ Last.op = "stepOut"
  /\ Depth >= 1

\* C19: a writeFieldName or _serializeValue call that fails emits no byte
\* and leaves the container stack (every frame's state and clean flag) and
\* indentCount as they were.
C19_FailedWriteIsNoOp ==
  [][(/\ Called
      /\ Call.op \in {"writeFieldName", "_serializeValue"}
      /\ thrown' # NoError) =>
       /\ writeable' = writeable
       /\ containerContext' = containerContext
       /\ indentCount' = indentCount]_vars

C19_Witness ==
  /\ calls # <<>>
  /\ Last.op = "_serializeValue"
  /\ thrown = ErrStructField
  /\ Top.clean
  /\ indentCount = 1

\* C20: a stepOut call that fails emits no byte and leaves indentCount
\* unchanged, but has removed the innermost frame: one frame less after a
\* STRUCT that awaits a value, no frame left after a failure at top level.
C20_FailedStepOutPops ==
  [][(Called /\ Call.op = "stepOut" /\ thrown' # NoError) =>
       /\ writeable' = writeable
       /\ indentCount' = indentCount
       /\ containerContext' =
            SubSeq(containerContext, 1, Len(containerContext) - 1)
       /\ thrown' = ErrStructValue =>
            Len(containerContext') - 1 = Depth - 1
       /\ thrown' = ErrNotInContainer => containerContext' = <<>>]_vars

C20_Witness ==
  /\ calls # <<>>
  /\ Last.op = "stepOut"
  /\ thrown = ErrNotInContainer
  /\ containerContext = <<>>
  /\ writeable # <<>>

====
